---- MODULE Spec2Model ----
(***************************************************************************)
(* The quantity-reconciliation engine of                                   *)
(* "Contractor PO System/backend/routes/bills.js": the edit-qty route      *)
(* (lines 300-592), the pay route (621-652) and the soft-delete route      *)
(* (655-750), over the three stores they touch: Bill, JobopsMaster and     *)
(* ContractorWD, plus the read-only Operation catalog and Contractor       *)
(* directory.                                                              *)
(*                                                                         *)
(* Numbers.  Rates and valuePerBook are counted in units of 1e-5, so that  *)
(* toFixed(4) and toFixed(2) both round.  Quantities are counted in units  *)
(* of (2/3)*1e-6, so that the tolerance 1e-6 of line 476 is 3/2 units:     *)
(* an overshoot of one unit is inside the tolerance, one of two is not.    *)
(***************************************************************************)
EXTENDS Integers, Sequences, FiniteSets, TLC

VARIABLES bills, masters, ledgers, last, nreq, sessions

vars == <<bills, masters, ledgers, last, nreq, sessions>>

(***************************************************************************)
(* Bounds of the model.                                                    *)
(***************************************************************************)
\* requests handled in one behaviour
MaxRequests == 3
\* largest newQtyCompleted a request asks for
MaxQty == 2

(***************************************************************************)
(* Program constants.                                                      *)
(***************************************************************************)
\* 0 - 1e-6 (line 476) is -TolNum/TolDen quantity units
TolNum == 3
TolDen == 2
\* rate units (1e-5) per 1e-4 and per 1e-2: toFixed(4) line 340, toFixed(2) line 422
Fixed4Unit == 10
Fixed2Unit == 1000

(***************************************************************************)
(* Pure helpers.                                                           *)
(***************************************************************************)
\* Number.prototype.toFixed(digits): round half up to a multiple of unit
ToFixed(r, unit) == ((r + (unit \div 2)) \div unit) * unit

\* line 422: parseFloat(Number(val || 0).toFixed(2))
Round2(val) == ToFixed(val, Fixed2Unit)

\* String.prototype.trim() on the strings of the model
Trim(s) ==
  CASE s = " Drilling " -> "Drilling"
    [] s = " J1 " -> "J1"
    [] s = "  " -> ""
    [] OTHER -> s

\* lines 336-342
buildKey(jobNumber, opsName, rate) ==
  <<Trim(jobNumber), Trim(opsName), ToFixed(rate, Fixed4Unit)>>

\* the Operation collection: _id -> opsName ("o3" is an id with no document)
Catalog == [o \in {"o1", "o2"} |-> IF o = "o1" THEN "Drilling" ELSE "Cutting"]

\* lines 443-447 and 457: operationNameMap[String(jop.opId)] || 'Unknown'
ResolveName(opId) == IF opId \in DOMAIN Catalog THEN Catalog[opId] ELSE "Unknown"

\* lines 685, 712: Operation.findOne({ opsName }) -> _id, "" when there is none
FindOperationByName(name) ==
  IF \E o \in DOMAIN Catalog : Catalog[o] = name
  THEN CHOOSE o \in DOMAIN Catalog : Catalog[o] = name
  ELSE ""

\* the Contractor collection: name -> contractorId (line 672)
Directory == [n \in {"Ravi"} |-> "c1"]

\* f with key k set to v / without key k (a store's save and deleteOne)
Put(f, k, v) == [x \in (DOMAIN f) \cup {k} |-> IF x = k THEN v ELSE f[x]]
Remove(f, k) == [x \in (DOMAIN f) \ {k} |-> f[x]]

\* index of the first element that satisfies P, 0 if none (Array.prototype.find)
FindFirst(s, P(_)) ==
  IF \E i \in 1..Len(s) : P(s[i])
  THEN CHOOSE i \in 1..Len(s) : P(s[i]) /\ \A k \in 1..(i - 1) : ~P(s[k])
  ELSE 0

Stores(b, m, l) == [bills |-> b, masters |-> m, ledgers |-> l]

\* K applied to the value of v: v is evaluated once, where a LET definition is
\* evaluated again at each of its uses
Bind(v, K(_)) == CHOOSE r \in {K(x) : x \in {v}} : TRUE

Max(a, b) == IF a >= b THEN a ELSE b
Min(a, b) == IF a <= b THEN a ELSE b

RemoveAt(s, k) == [i \in 1..(Len(s) - 1) |-> IF i < k THEN s[i] ELSE s[i + 1]]

(***************************************************************************)
(* A request in progress: the stores as the request sees and writes them   *)
(* (tx), the storage calls it has made (calls), and what it did to the     *)
(* master and ledger entries (mlog, llog).  The fail-th storage call of a  *)
(* request throws; fail = 0 is a request none of whose calls throws.       *)
(***************************************************************************)
NewCtx(st) == [tx |-> st, calls |-> <<>>, mlog |-> <<>>, llog |-> <<>>]

Call(ctx, name) == [ctx EXCEPT !.calls = Append(@, name)]

Throws(ctx, fail) == Len(ctx.calls) = fail

(***************************************************************************)
(* edit-qty, lines 344-419: the deltas of a change list, computed against  *)
(* the bill in memory.                                                     *)
(***************************************************************************)
LinePositions(jobs) ==
  UNION {{<<j, o>> : o \in 1..Len(jobs[j].ops)} : j \in 1..Len(jobs)}

NoEntry == <<0, 0>>

\* a map keyed by the operation's name alone
billOpsMapGetByName(jobs, key) ==
  LET hits == {p \in LinePositions(jobs) :
                 Trim(jobs[p[1]].ops[p[2]].opsName) = key[2]}
  IN IF hits = {} THEN NoEntry
     ELSE CHOOSE p \in hits :
            \A q \in hits : q[1] < p[1] \/ (q[1] = p[1] /\ q[2] <= p[2])

\* lines 344-351 and 377: billOpsMap.get(key); a later line with the same key
\* has overwritten an earlier one
billOpsMapGet(jobs, key) ==
  LET hits == {p \in LinePositions(jobs) :
                 buildKey(jobs[p[1]].jobNumber, jobs[p[1]].ops[p[2]].opsName,
                          jobs[p[1]].ops[p[2]].rate) = key}
  IN IF hits = {} THEN NoEntry
     ELSE CHOOSE p \in hits :
            \A q \in hits : q[1] < p[1] \/ (q[1] = p[1] /\ q[2] <= p[2])

\* lines 400-407: deltasByJob.get(jobNumber).push(delta), the Map kept as the
\* sequence of its entries in insertion order
PushDelta(dbj, jobNumber, delta) ==
  LET i == FindFirst(dbj, LAMBDA e : e.jobNumber = jobNumber)
  IN IF i = 0
     THEN Append(dbj, [jobNumber |-> jobNumber, deltas |-> <<delta>>])
     ELSE [dbj EXCEPT ![i].deltas = Append(@, delta)]

\* lines 409-411
UpdateBillOp(op, newQty) ==
  [op EXCEPT !.qtyCompleted = newQty, !.totalValue = op.rate * newQty]

\* a handler without the skip of lines 394-397
IsNoChangeNever(delta) == FALSE

\* lines 394-397: a change that changes nothing is skipped
IsNoChange(delta) == delta = 0

\* lines 357-412; acc is [error, jobs, deltasByJob]
RECURSIVE ApplyChanges(_, _, _)
ApplyChanges(changes, i, acc0) ==
  Bind(acc0, LAMBDA acc :
    IF i > Len(changes) THEN acc
    ELSE
      LET change == changes[i]
          Err(e) == [acc EXCEPT !.error = e]
          pos == billOpsMapGet(acc.jobs,
                   buildKey(change.jobNumber, change.opsName, change.rate))
      IN IF Trim(change.jobNumber) = "" THEN Err("Each change must have a jobNumber")
         ELSE IF Trim(change.opsName) = "" THEN Err("Each change must have an opsName")
         ELSE IF ~change.hasQty THEN Err("Each change must have newQtyCompleted")
         ELSE
           Bind(pos, LAMBDA p :
             IF p = NoEntry THEN Err("Operation not found in bill")
             ELSE
               LET job == acc.jobs[p[1]]
                   op == job.ops[p[2]]
                   newQty == change.newQtyCompleted
                   delta == newQty - op.qtyCompleted
               IN IF newQty < 0
                  THEN Err("newQtyCompleted must be a non-negative number")
                  ELSE IF IsNoChange(delta)
                  THEN ApplyChanges(changes, i + 1, acc)
                  ELSE ApplyChanges(changes, i + 1,
                         [acc EXCEPT
                            !.jobs[p[1]].ops[p[2]] = UpdateBillOp(op, newQty),
                            !.deltasByJob = PushDelta(@, job.jobNumber,
                               [opsName |-> Trim(op.opsName), rate |-> op.rate,
                                deltaQty |-> delta])])))

(***************************************************************************)
(* edit-qty, lines 452-493: the deltas of one job applied to its master.   *)
(***************************************************************************)
\* lines 456-460
FindJobOp(ops, normalizedName, normalizedRate) ==
  FindFirst(ops, LAMBDA jop :
    ResolveName(jop.opId) = normalizedName
    /\ Round2(jop.valuePerBook) = normalizedRate)

\* line 472 with the delta added
NewPendingAdds(currentPending, deltaQty) == currentPending + deltaQty

\* line 472
NewPending(currentPending, deltaQty) == currentPending - deltaQty

\* a handler without the check of line 476
InsufficientNever(newPending) == FALSE

\* line 476: newPending < 0 - 1e-6
Insufficient(newPending) == TolDen * newPending < 0 - TolNum

\* line 484
ClampPending(totalOpsQty, newPending) == Max(0, Min(totalOpsQty, newPending))

\* lines 452-493; r is [error, ops, adjustments, mlog]
RECURSIVE AdjustMaster(_, _, _, _)
AdjustMaster(jobNumber, deltas, i, r0) ==
  Bind(r0, LAMBDA r :
    IF i > Len(deltas) THEN r
    ELSE
      LET d == deltas[i]
          normalizedName == Trim(d.opsName)
          normalizedRate == Round2(d.rate)
      IN Bind(FindJobOp(r.ops, normalizedName, normalizedRate), LAMBDA k :
           IF k = 0
           THEN [r EXCEPT !.error = "Operation not found in JobopsMaster"]
           ELSE
             LET jobOp == r.ops[k]
                 newPending == NewPending(jobOp.pendingOpsQty, d.deltaQty)
                 entry == [jobNumber |-> jobNumber, op |-> k,
                           opsName |-> normalizedName,
                           deltaQty |-> d.deltaQty,
                           pendingBefore |-> jobOp.pendingOpsQty,
                           totalOpsQty |-> jobOp.totalOpsQty,
                           newPending |-> newPending,
                           rejected |-> Insufficient(newPending)]
             IN IF Insufficient(newPending)
                THEN [r EXCEPT !.error = "Insufficient pending quantity",
                               !.mlog = Append(@, entry)]
                ELSE AdjustMaster(jobNumber, deltas, i + 1,
                       [r EXCEPT
                          !.ops[k].pendingOpsQty =
                             ClampPending(jobOp.totalOpsQty, newPending),
                          !.adjustments = Append(@,
                             [opsName |-> normalizedName,
                              valuePerBook |-> jobOp.valuePerBook,
                              deltaQty |-> d.deltaQty]),
                          !.mlog = Append(@, entry)])))

(***************************************************************************)
(* edit-qty, lines 512-548: the adjustments of one job applied to the      *)
(* contractor's ledger record.                                             *)
(***************************************************************************)
\* lines 517-521
FindExistingOp(opsDone, adjName, adjValue) ==
  FindFirst(opsDone, LAMBDA od :
    Trim(od.opsName) = adjName /\ Round2(od.valuePerBook) = adjValue)

\* lines 523-536 with the entry's quantity replaced, not incremented
IncreaseDoneReplaces(opsDone, k, adjName, adjValue, deltaQty) ==
  IF k # 0
  THEN [opsDone EXCEPT ![k].opsDoneQty = deltaQty]
  ELSE Append(opsDone, [opsId |-> "null", opsName |-> adjName,
                        valuePerBook |-> adjValue, opsDoneQty |-> deltaQty])

\* lines 523-536
IncreaseDone(opsDone, k, adjName, adjValue, deltaQty) ==
  IF k # 0
  THEN [opsDone EXCEPT ![k].opsDoneQty = @ + deltaQty]
  ELSE Append(opsDone, [opsId |-> "null", opsName |-> adjName,
                        valuePerBook |-> adjValue, opsDoneQty |-> deltaQty])

\* lines 537-547 with the entry always removed
DecreaseDoneRemoves(opsDone, k, deltaQty) == RemoveAt(opsDone, k)

\* lines 537-547
DecreaseDone(opsDone, k, deltaQty) ==
  LET newDone == opsDone[k].opsDoneQty + deltaQty
  IN IF newDone <= 0 THEN RemoveAt(opsDone, k)
     ELSE [opsDone EXCEPT ![k].opsDoneQty = newDone]

\* lines 512-548, one adjustment
ApplyAdjustment(opsDone, adj) ==
  LET adjName == Trim(adj.opsName)
      adjValue == Round2(adj.valuePerBook)
  IN Bind(FindExistingOp(opsDone, adjName, adjValue), LAMBDA k :
       IF adj.deltaQty > 0
       THEN IncreaseDone(opsDone, k, adjName, adjValue, adj.deltaQty)
       ELSE IF adj.deltaQty < 0 /\ k # 0
       THEN DecreaseDone(opsDone, k, adj.deltaQty)
       ELSE opsDone)

\* lines 512-548; r is [opsDone, llog]
RECURSIVE AdjustLedger(_, _, _, _)
AdjustLedger(key, adjustments, i, r0) ==
  Bind(r0, LAMBDA r :
    IF i > Len(adjustments) THEN r
    ELSE
      LET adj == adjustments[i]
      IN Bind(ApplyAdjustment(r.opsDone, adj), LAMBDA after :
           AdjustLedger(key, adjustments, i + 1,
             [opsDone |-> after,
              llog |-> Append(r.llog,
                [key |-> key, opsName |-> Trim(adj.opsName),
                 valuePerBook |-> Round2(adj.valuePerBook),
                 deltaQty |-> adj.deltaQty,
                 before |-> r.opsDone, after |-> after])])))

(***************************************************************************)
(* edit-qty, lines 425-561: every job that has deltas.                     *)
(***************************************************************************)
\* lines 550-560 with the record saved whatever it holds
SaveAlways(records, key, opsDone) == Put(records, key, opsDone)

\* lines 550-560 (and 732-737): a record with no entry is deleted, not saved
SaveOrDelete(records, key, opsDone) ==
  IF opsDone = <<>> THEN Remove(records, key) ELSE Put(records, key, opsDone)

\* lines 425-561; the result is [ctx, status, error], status 0 to go on
RECURSIVE AdjustJobs(_, _, _, _, _)
AdjustJobs(ctx0, contractorId, dbj, j, fail) ==
  Bind(ctx0, LAMBDA ctx :
    IF j > Len(dbj) THEN [ctx |-> ctx, status |-> 0, error |-> ""]
    ELSE
      LET jobNumber == dbj[j].jobNumber
          Thrown(c) == [ctx |-> c, status |-> 500,
                        error |-> "Error editing bill quantities"]
          c1 == Call(ctx, "JobopsMaster.findOne")
          c2 == Call(c1, "Operation.find")
      IN IF Throws(c1, fail) THEN Thrown(c1)
         ELSE IF jobNumber \notin DOMAIN ctx.tx.masters
         THEN [ctx |-> c1, status |-> 400, error |-> "JobopsMaster not found"]
         ELSE IF Throws(c2, fail) THEN Thrown(c2)
         ELSE
           Bind(AdjustMaster(jobNumber, dbj[j].deltas, 1,
                  [error |-> "", ops |-> ctx.tx.masters[jobNumber],
                   adjustments |-> <<>>, mlog |-> ctx.mlog]), LAMBDA m :
             LET c3 == Call([c2 EXCEPT !.mlog = m.mlog], "JobopsMaster.save")
                 c4 == Call([c3 EXCEPT !.tx.masters[jobNumber] = m.ops],
                            "ContractorWD.findOne")
                 key == <<contractorId, jobNumber>>
                 wasNewDocument == key \notin DOMAIN ctx.tx.ledgers
             IN IF m.error # ""
                THEN [ctx |-> [c2 EXCEPT !.mlog = m.mlog], status |-> 400,
                      error |-> m.error]
                ELSE IF Throws(c3, fail) THEN Thrown(c3)
                ELSE IF Throws(c4, fail) THEN Thrown(c4)
                ELSE
                  Bind(AdjustLedger(key, m.adjustments, 1,
                         [opsDone |-> IF wasNewDocument THEN <<>>
                                      ELSE ctx.tx.ledgers[key],
                          llog |-> ctx.llog]), LAMBDA l :
                    LET c5 == [c4 EXCEPT !.llog = l.llog]
                        skipped == l.opsDone = <<>> /\ wasNewDocument
                        c6 == IF l.opsDone = <<>>
                              THEN Call(c5, "ContractorWD.deleteOne")
                              ELSE Call(c5, "ContractorWD.save")
                        c7 == IF skipped THEN c5
                              ELSE [c6 EXCEPT !.tx.ledgers =
                                      SaveOrDelete(@, key, l.opsDone)]
                    IN IF ~skipped /\ Throws(c6, fail) THEN Thrown(c6)
                       ELSE AdjustJobs(c7, contractorId, dbj, j + 1, fail))))

(***************************************************************************)
(* edit-qty, lines 300-592: the handler.                                   *)
(***************************************************************************)
\* a handler without the check of line 328
IsPaidNever(bill) == FALSE

\* line 328
IsPaid(bill) == bill.paymentStatus = "Yes"

\* a cleanup that keeps every line
KeepsOpAlways(op) == TRUE

\* line 568: the lines a bill keeps
KeepsOp(op) == op.qtyCompleted > 0

\* lines 566-576
CleanupJobs(jobs) ==
  SelectSeq([j \in 1..Len(jobs) |->
               [jobs[j] EXCEPT !.ops = SelectSeq(@, KeepsOp)]],
            LAMBDA job : Len(job.ops) > 0)

\* a handler whose error paths leave the request's writes in place
AbortKeepsWrites(st, tx) == tx

\* session.abortTransaction(): what the request wrote is discarded
AbortTransaction(st, tx) == st

\* session.commitTransaction(): what the request wrote is persisted
CommitTransaction(st, tx) == tx

NoBody == [contractorName |-> "", paymentStatus |-> "", isDeleted |-> 0,
           jobs |-> <<>>]

\* a response, with the stores as the request leaves them
Reply(status, error, body, st, ctx) ==
  [status |-> status, error |-> error, body |-> body, st |-> st,
   calls |-> ctx.calls, mlog |-> ctx.mlog, llog |-> ctx.llog]

\* lines 300-592
EditQty(st, billNumber, contractorId, changes, fail) ==
  LET c0 == NewCtx(st)
      Reject(ctx, status, error) ==
        Reply(status, error, NoBody, AbortTransaction(st, ctx.tx), ctx)
      Thrown(ctx) == Reject(ctx, 500, "Error editing bill quantities")
      c1 == Call(c0, "Bill.findOne")
      bill == st.bills[billNumber]
  IN IF Trim(contractorId) = "" THEN Reject(c0, 400, "contractorId is required")
     ELSE IF Len(changes) = 0 THEN Reject(c0, 400, "At least one change is required")
     ELSE IF Throws(c1, fail) THEN Thrown(c1)
     ELSE IF billNumber \notin DOMAIN st.bills THEN Reject(c1, 404, "Bill not found")
     ELSE IF IsPaid(bill) THEN Reject(c1, 400, "Paid bills cannot be edited")
     ELSE
       Bind(ApplyChanges(changes, 1,
              [error |-> "", jobs |-> bill.jobs, deltasByJob |-> <<>>]), LAMBDA v :
         IF v.error # "" THEN Reject(c1, 400, v.error)
         ELSE IF Len(v.deltasByJob) = 0
         THEN Reply(200, "", [bill EXCEPT !.jobs = v.jobs],
                    AbortTransaction(st, c1.tx), c1)
         ELSE
           Bind(AdjustJobs(c1, contractorId, v.deltasByJob, 1, fail), LAMBDA a :
             LET c2 == Call(a.ctx, "Bill.save")
                 c3 == Call([c2 EXCEPT !.tx.bills[billNumber].jobs =
                                          CleanupJobs(v.jobs)],
                            "commitTransaction")
             IN IF a.status # 0 THEN Reject(a.ctx, a.status, a.error)
                ELSE IF Throws(c2, fail) THEN Thrown(c2)
                ELSE IF Throws(c3, fail) THEN Thrown(c3)
                ELSE Bind(c3, LAMBDA c :
                       Reply(200, "", c.tx.bills[billNumber],
                             CommitTransaction(st, c.tx), c))))

(***************************************************************************)
(* pay, lines 621-652.                                                     *)
(***************************************************************************)
PayBill(st, billNumber) ==
  IF billNumber \notin DOMAIN st.bills
  THEN Reply(404, "Bill not found", NoBody, st, NewCtx(st))
  ELSE LET paid == [st.bills[billNumber] EXCEPT !.paymentStatus = "Yes"]
       IN Reply(200, "", paid, [st EXCEPT !.bills[billNumber] = paid],
                Call(Call(NewCtx(st), "Bill.findOne"), "Bill.save"))

(***************************************************************************)
(* soft delete, lines 655-750.  No transaction: every save is persisted    *)
(* when it is made, and ctx.tx is the stores themselves.                   *)
(***************************************************************************)
\* line 694 without the addition
RestorePendingKeeps(pendingOpsQty, qtyCompleted) == Max(0, pendingOpsQty)

\* line 694
RestorePending(pendingOpsQty, qtyCompleted) == Max(0, pendingOpsQty + qtyCompleted)

\* lines 685-689: the master operation for a bill line, by the catalog's id
\* for the line's name
FindJobOpById(ops, opsName) ==
  LET opIdStr == FindOperationByName(Trim(opsName))
  IN IF opIdStr = "" THEN 0
     ELSE FindFirst(ops, LAMBDA jop : jop.opId = opIdStr)

\* lines 683-698; r is [ctx, thrown, ops]
RECURSIVE RestoreOps(_, _, _, _)
RestoreOps(r0, lines, i, fail) ==
  Bind(r0, LAMBDA r :
    IF i > Len(lines) \/ r.thrown THEN r
    ELSE
      LET op == lines[i]
          c == Call(r.ctx, "Operation.findOne")
          k == FindJobOpById(r.ops, op.opsName)
      IN IF Throws(c, fail) THEN [r EXCEPT !.ctx = c, !.thrown = TRUE]
         ELSE RestoreOps(
                [ctx |-> c, thrown |-> FALSE,
                 ops |-> IF k = 0 THEN r.ops
                         ELSE [r.ops EXCEPT ![k].pendingOpsQty =
                                 RestorePending(@, op.qtyCompleted)]],
                lines, i + 1, fail))

\* lines 716-728
ReduceDone(opsDone, opIdStr, qtyCompleted) ==
  LET k == FindFirst(opsDone, LAMBDA od : od.opsId = opIdStr)
  IN IF k = 0 THEN opsDone
     ELSE LET q == Max(0, opsDone[k].opsDoneQty - qtyCompleted)
          IN IF q <= 0 THEN SelectSeq(opsDone, LAMBDA od : od.opsId # opIdStr)
             ELSE [opsDone EXCEPT ![k].opsDoneQty = q]

\* lines 710-730; r is [ctx, thrown, opsDone]
RECURSIVE ReduceOps(_, _, _, _)
ReduceOps(r0, lines, i, fail) ==
  Bind(r0, LAMBDA r :
    IF i > Len(lines) \/ r.thrown THEN r
    ELSE
      LET op == lines[i]
          c == Call(r.ctx, "Operation.findOne")
          opIdStr == FindOperationByName(Trim(op.opsName))
      IN IF Throws(c, fail) THEN [r EXCEPT !.ctx = c, !.thrown = TRUE]
         ELSE ReduceOps(
                [ctx |-> c, thrown |-> FALSE,
                 opsDone |-> IF opIdStr = "" THEN r.opsDone
                             ELSE ReduceDone(r.opsDone, opIdStr, op.qtyCompleted)],
                lines, i + 1, fail))

\* lines 679-701: the master of one job; the result is [ctx, thrown]
ReverseMaster(ctx, job, fail) ==
  LET c1 == Call(ctx, "JobopsMaster.findOne")
  IN IF Throws(c1, fail) THEN [ctx |-> c1, thrown |-> TRUE]
     ELSE IF job.jobNumber \notin DOMAIN ctx.tx.masters
     THEN [ctx |-> c1, thrown |-> FALSE]
     ELSE
       Bind(RestoreOps([ctx |-> c1, thrown |-> FALSE,
                        ops |-> ctx.tx.masters[job.jobNumber]],
                       job.ops, 1, fail), LAMBDA m :
         LET c2 == Call(m.ctx, "JobopsMaster.save")
         IN IF m.thrown THEN [ctx |-> m.ctx, thrown |-> TRUE]
            ELSE IF Throws(c2, fail) THEN [ctx |-> c2, thrown |-> TRUE]
            ELSE [ctx |-> [c2 EXCEPT !.tx.masters[job.jobNumber] = m.ops],
                  thrown |-> FALSE])

\* lines 703-738: the ledger record of one job; the result is [ctx, thrown]
ReverseLedger(ctx, contractorId, job, fail) ==
  LET c1 == Call(ctx, "ContractorWD.findOne")
      key == <<contractorId, job.jobNumber>>
  IN IF Throws(c1, fail) THEN [ctx |-> c1, thrown |-> TRUE]
     ELSE IF key \notin DOMAIN ctx.tx.ledgers
     THEN [ctx |-> c1, thrown |-> FALSE]
     ELSE
       Bind(ReduceOps([ctx |-> c1, thrown |-> FALSE,
                       opsDone |-> ctx.tx.ledgers[key]],
                      job.ops, 1, fail), LAMBDA l :
         LET c2 == IF Len(l.opsDone) > 0 THEN Call(l.ctx, "ContractorWD.save")
                   ELSE Call(l.ctx, "ContractorWD.deleteOne")
         IN IF l.thrown THEN [ctx |-> l.ctx, thrown |-> TRUE]
            ELSE IF Throws(c2, fail) THEN [ctx |-> c2, thrown |-> TRUE]
            ELSE [ctx |-> [c2 EXCEPT !.tx.ledgers =
                                    SaveOrDelete(@, key, l.opsDone)],
                  thrown |-> FALSE])

\* lines 679-739; the result is [ctx, thrown]
RECURSIVE ReverseJobs(_, _, _, _, _)
ReverseJobs(r0, contractorId, jobs, j, fail) ==
  Bind(r0, LAMBDA r :
    IF j > Len(jobs) \/ r.thrown THEN r
    ELSE
      Bind(ReverseMaster(r.ctx, jobs[j], fail), LAMBDA m :
        IF m.thrown THEN m
        ELSE ReverseJobs(ReverseLedger(m.ctx, contractorId, jobs[j], fail),
                         contractorId, jobs, j + 1, fail)))

\* lines 659-665: the bill is found only while it is not deleted
IsAddressable(st, billNumber) ==
  billNumber \in DOMAIN st.bills /\ st.bills[billNumber].isDeleted # 1

\* lines 655-750
DeleteBill(st, billNumber, fail) ==
  LET c0 == NewCtx(st)
      Thrown(ctx) == Reply(500, "Error deleting bill", NoBody, ctx.tx, ctx)
      c1 == Call(c0, "Bill.findOne")
      bill == st.bills[billNumber]
      c2 == Call(c1, "Contractor.findOne")
      name == Trim(bill.contractorName)
  IN IF Throws(c1, fail) THEN Thrown(c1)
     ELSE IF ~IsAddressable(st, billNumber)
     THEN Reply(404, "Bill not found or already deleted", NoBody, st, c1)
     ELSE IF Throws(c2, fail) THEN Thrown(c2)
     ELSE IF name \notin DOMAIN Directory
     THEN Reply(404, "Contractor not found", NoBody, st, c2)
     ELSE
       Bind(ReverseJobs([ctx |-> c2, thrown |-> FALSE], Directory[name],
                        bill.jobs, 1, fail), LAMBDA r :
         LET c3 == Call(r.ctx, "Bill.save")
         IN IF r.thrown THEN Thrown(r.ctx)
            ELSE IF Throws(c3, fail) THEN Thrown(c3)
            ELSE Bind([c3 EXCEPT !.tx.bills[billNumber].isDeleted = 1], LAMBDA c :
                   Reply(200, "", NoBody, c.tx, c)))

(***************************************************************************)
(* The state: the three stores, the request being answered (last), and the *)
(* number of requests handled so far.                                      *)
(***************************************************************************)
Line(opsName, rate, qtyCompleted) ==
  [opsName |-> opsName, qtyBook |-> 2, rate |-> rate,
   qtyCompleted |-> qtyCompleted, totalValue |-> rate * qtyCompleted]

MasterOp(opId, valuePerBook, totalOpsQty, pendingOpsQty) ==
  [opId |-> opId, valuePerBook |-> valuePerBook, totalOpsQty |-> totalOpsQty,
   pendingOpsQty |-> pendingOpsQty]

Done(opsId, opsName, valuePerBook, opsDoneQty) ==
  [opsId |-> opsId, opsName |-> opsName, valuePerBook |-> valuePerBook,
   opsDoneQty |-> opsDoneQty]

\* one bill of contractor Ravi (c1): two lines on job J1, one on job J2
InitBills ==
  [b \in {"00000001"} |->
     [contractorName |-> "Ravi", paymentStatus |-> "No", isDeleted |-> 0,
      jobs |-> <<[jobNumber |-> "J1",
                  ops |-> <<Line("Drilling", 1000000, 1),
                            Line("Cutting", 2000000, 0)>>],
                 [jobNumber |-> "J2",
                  ops |-> <<Line("Drilling", 1000400, 1)>>]>>]]

\* both jobs have a master record that knows the bill's operations
FullMasters ==
  [j \in {"J1", "J2"} |->
     IF j = "J1"
     THEN <<MasterOp("o1", 1000000, 2, 1), MasterOp("o2", 2000000, 2, 0)>>
     ELSE <<MasterOp("o1", 1000000, 2, 1)>>]

\* job J2 has no master record, and J1's knows Cutting at another rate
PartMasters ==
  [j \in {"J1"} |->
     <<MasterOp("o1", 1000000, 2, 1), MasterOp("o2", 2500000, 2, 0)>>]

\* job J1's master holds Drilling at two rates, the dearer one first
TwoRateMasters ==
  [j \in {"J1", "J2"} |->
     IF j = "J1"
     THEN <<MasterOp("o1", 1200000, 2, 2), MasterOp("o1", 1000000, 2, 1),
            MasterOp("o2", 2000000, 2, 0)>>
     ELSE <<MasterOp("o1", 1000000, 2, 1)>>]

InitLedgers ==
  [k \in {<<"c1", "J1">>, <<"c1", "J2">>} |->
     IF k[2] = "J1" THEN <<Done("o1", "Drilling", 1000000, 1)>>
     ELSE <<Done("o1", "Drilling", 999600, 1)>>]

NoRequest ==
  [kind |-> "none", billNumber |-> "", contractorId |-> "", changes |-> <<>>,
   fail |-> 0, pre |-> Stores(<<>>, <<>>, <<>>),
   res |-> Reply(0, "", NoBody, Stores(<<>>, <<>>, <<>>),
                 NewCtx(Stores(<<>>, <<>>, <<>>)))]

\* no edit-qty request is in flight beside the one being answered
NoSessions == [tx |-> <<>>, ver |-> <<>>]

Init ==
  /\ bills = InitBills
  /\ masters \in {FullMasters, PartMasters, TwoRateMasters}
  /\ ledgers = InitLedgers
  /\ last = NoRequest
  /\ nreq = 0
  /\ sessions = NoSessions

(***************************************************************************)
(* The requests of the model.                                              *)
(***************************************************************************)
Change(jobNumber, opsName, rate, newQtyCompleted) ==
  [jobNumber |-> jobNumber, opsName |-> opsName, rate |-> rate,
   newQtyCompleted |-> newQtyCompleted, hasQty |-> TRUE]

\* a new quantity q for the bill line at position p
LineChange(jobs, p, q) ==
  Change(jobs[p[1]].jobNumber, jobs[p[1]].ops[p[2]].opsName,
         jobs[p[1]].ops[p[2]].rate, q)

LineChanges(jobs) ==
  {LineChange(jobs, p, q) : p \in LinePositions(jobs), q \in 0..MaxQty}

\* the same line named with padding and a rate that differs in the 5th decimal
PaddedChanges == {Change(" J1 ", " Drilling ", 1000004, q) : q \in 0..MaxQty}

\* changes the validation of lines 360-392 refuses
BadChanges ==
  {Change("  ", "Drilling", 1000000, 1), Change("J1", "", 1000000, 1),
   [Change("J1", "Drilling", 1000000, 0) EXCEPT !.hasQty = FALSE],
   Change("J1", "Drilling", 1000000, 0 - 1),
   Change("J1", "Polishing", 1000000, 1),
   Change("J1", "Drilling", 1000400, 1)}

Before(p, q) == p[1] < q[1] \/ (p[1] = q[1] /\ p[2] <= q[2])

\* one change of any kind, or two changes: the same line twice, two lines of
\* one job, lines of two jobs, or a line and a change that is refused
ChangeLists(jobs) ==
  {<<>>}
  \cup {<<c>> : c \in LineChanges(jobs) \cup PaddedChanges \cup BadChanges}
  \cup {<<LineChange(jobs, x[1], x[3]), LineChange(jobs, x[2], x[4])>> :
          x \in {y \in LinePositions(jobs) \X LinePositions(jobs)
                        \X (0..MaxQty) \X (0..MaxQty) : Before(y[1], y[2])}}
  \cup {<<c, Change("J1", "Polishing", 1000000, 1)>> : c \in LineChanges(jobs)}

\* the contractor of the bill with every change list; another contractor
\* and no contractor with the lists of one change
EditInputs(jobs) ==
  {<<"c1", cs>> : cs \in ChangeLists(jobs)}
  \cup {<<c, cs>> : c \in {"c2", ""},
                    cs \in {<<ch>> : ch \in LineChanges(jobs)}}

BillNumbers == {"00000001", "00000002"}

JobsOf(billNumber) ==
  IF billNumber \in DOMAIN bills THEN bills[billNumber].jobs ELSE <<>>

Handled(kind, billNumber, contractorId, changes, fail, res) ==
  /\ fail = 0 \/ res.status = 500
  /\ bills' = res.st.bills
  /\ masters' = res.st.masters
  /\ ledgers' = res.st.ledgers
  /\ last' = [kind |-> kind, billNumber |-> billNumber,
              contractorId |-> contractorId, changes |-> changes, fail |-> fail,
              pre |-> Stores(bills, masters, ledgers), res |-> res]
  /\ nreq' = nreq + 1
  /\ UNCHANGED sessions

Idle == last.kind = "none" /\ nreq < MaxRequests

\* PUT /:billNumber/edit-qty
EditQtyRequest ==
  /\ Idle
  /\ \E billNumber \in BillNumbers :
       \E in \in EditInputs(JobsOf(billNumber)) :
         LET st == Stores(bills, masters, ledgers)
             calls == EditQty(st, billNumber, in[1], in[2], 0).calls
         IN \E fail \in 0..Len(calls) :
              \E res \in {EditQty(st, billNumber, in[1], in[2], fail)} :
                Handled("edit", billNumber, in[1], in[2], fail, res)

\* DELETE /:billNumber
DeleteRequest ==
  /\ Idle
  /\ \E billNumber \in BillNumbers :
       LET st == Stores(bills, masters, ledgers)
           calls == DeleteBill(st, billNumber, 0).calls
       IN \E fail \in 0..Len(calls) :
            \E res \in {DeleteBill(st, billNumber, fail)} :
              Handled("delete", billNumber, "", <<>>, fail, res)

\* PATCH /:billNumber/pay
PayRequest ==
  /\ Idle
  /\ \E billNumber \in BillNumbers :
       \E res \in {PayBill(Stores(bills, masters, ledgers), billNumber)} :
         Handled("pay", billNumber, "", <<>>, 0, res)

\* the response has been sent and the request is over
Respond ==
  /\ last.kind # "none"
  /\ last' = NoRequest
  /\ UNCHANGED <<bills, masters, ledgers, nreq, sessions>>

Next == EditQtyRequest \/ DeleteRequest \/ PayRequest \/ Respond

Spec == Init /\ [][Next]_vars

(***************************************************************************)
(* What the claims speak of.                                               *)
(***************************************************************************)
IsEdit == last.kind = "edit"

Succeeded == last.res.status = 200

StoresUnchanged ==
  bills = last.pre.bills /\ masters = last.pre.masters /\ ledgers = last.pre.ledgers

CallsOf(name) == {i \in 1..Len(last.res.calls) : last.res.calls[i] = name}

WriteCalls ==
  UNION {CallsOf(n) : n \in {"Bill.save", "JobopsMaster.save", "ContractorWD.save",
                             "ContractorWD.deleteOne", "commitTransaction"}}

\* C1: an edit-qty request that ends in an error (a validation error, a
\* record that is not found, insufficient pending quantity, a storage call
\* that throws at any step) leaves the bill, every JobopsMaster record and
\* every ContractorWD record as they were before the request.
C1_ErrorLeavesStoresUnchanged ==
  (IsEdit /\ ~Succeeded) => StoresUnchanged

\* the request threw at the master save of its second job, after the master
\* and the ledger record of its first job had been saved
C1_Witness ==
  /\ IsEdit /\ last.res.status = 500
  /\ CallsOf("ContractorWD.save") # {}
  /\ Cardinality(CallsOf("JobopsMaster.save")) = 2
  /\ last.res.calls[Len(last.res.calls)] = "JobopsMaster.save"
  /\ StoresUnchanged

\* the pending quantity the master record held for the op of log entry i
\* before the request, when no earlier entry of the request is for that op
FirstForOp(i) ==
  \A h \in 1..(i - 1) :
    last.res.mlog[h].jobNumber # last.res.mlog[i].jobNumber
    \/ last.res.mlog[h].op # last.res.mlog[i].op

\* C3: a delta d that the request applies to a master entry whose pending
\* quantity p has p - d < 0 beyond the 1e-6 tolerance is rejected with the
\* insufficient-pending-quantity error, and the stores remain unchanged; p is
\* the persisted quantity unless the request has changed that entry before.
C3_InsufficientPendingRejected ==
  IsEdit =>
    \A i \in 1..Len(last.res.mlog) :
      LET e == last.res.mlog[i]
      IN /\ FirstForOp(i) =>
              e.pendingBefore = last.pre.masters[e.jobNumber][e.op].pendingOpsQty
         /\ (TolDen * (e.pendingBefore - e.deltaQty) < 0 - TolNum) =>
              /\ last.res.status = 400
              /\ last.res.error = "Insufficient pending quantity"
              /\ StoresUnchanged

\* a request was rejected for a delta that overshoots the pending quantity
C3_Witness ==
  /\ IsEdit /\ last.res.error = "Insufficient pending quantity"
  /\ \E i \in 1..Len(last.res.mlog) :
       last.res.mlog[i].pendingBefore - last.res.mlog[i].deltaQty < 0 - 1

C6_PaidBillRejected ==
  (IsEdit /\ last.billNumber \in DOMAIN last.pre.bills
          /\ last.pre.bills[last.billNumber].paymentStatus = "Yes") =>
    (~Succeeded /\ StoresUnchanged)

\* a well-formed request for a paid bill was refused as such
C6_Witness ==
  /\ IsEdit /\ last.res.error = "Paid bills cannot be edited"
  /\ last.res.status = 400 /\ StoresUnchanged

(***************************************************************************)
(* The bill's lines before the request and with the request's quantities.  *)
(***************************************************************************)
JobsBefore ==
  IF last.billNumber \in DOMAIN last.pre.bills
  THEN last.pre.bills[last.billNumber].jobs ELSE <<>>

\* the validation of the request, on the bill as it was
Validated ==
  ApplyChanges(last.changes, 1,
               [error |-> "", jobs |-> JobsBefore, deltasByJob |-> <<>>])

JobsRequested == Validated.jobs

LineAt(jobs, p) == jobs[p[1]].ops[p[2]]

\* the jobs whose master record the request adjusted
TouchedJobs == {last.res.mlog[i].jobNumber : i \in 1..Len(last.res.mlog)}

InRange(jop) == 0 <= jop.pendingOpsQty /\ jop.pendingOpsQty <= jop.totalOpsQty

\* C2: after a successful edit-qty request, every operation of every
\* JobopsMaster record the request touched has 0 <= pendingOpsQty <=
\* totalOpsQty.
C2_TouchedMastersInRange ==
  (IsEdit /\ Succeeded) =>
    \A J \in TouchedJobs : \A k \in 1..Len(masters[J]) : InRange(masters[J][k])

\* no adjustment of the request had its pending value altered by the clamp
NoClamp ==
  \A i \in 1..Len(last.res.mlog) :
    LET e == last.res.mlog[i]
    IN 0 <= e.pendingBefore - e.deltaQty
       /\ e.pendingBefore - e.deltaQty <= e.totalOpsQty

\* the bill lines of job J that match operation k of J's master record
MatchedLines(J, k) ==
  {p \in LinePositions(JobsBefore) :
     /\ JobsBefore[p[1]].jobNumber = J
     /\ FindJobOp(last.pre.masters[J], Trim(LineAt(JobsBefore, p).opsName),
                  Round2(LineAt(JobsBefore, p).rate)) = k}

RECURSIVE SumQtyChange(_)
SumQtyChange(P) ==
  IF P = {} THEN 0
  ELSE LET p == CHOOSE x \in P : TRUE
       IN (LineAt(JobsRequested, p).qtyCompleted
             - LineAt(JobsBefore, p).qtyCompleted) + SumQtyChange(P \ {p})

\* C4: after a successful edit-qty request in which the clamp altered no
\* computed pending value, the change in every master operation's
\* pendingOpsQty is minus the sum of the changes in qtyCompleted of the bill
\* lines matched to it.
C4_PendingMirrorsCompleted ==
  (IsEdit /\ Succeeded /\ NoClamp) =>
    /\ DOMAIN masters = DOMAIN last.pre.masters
    /\ \A J \in DOMAIN masters :
         /\ Len(masters[J]) = Len(last.pre.masters[J])
         /\ \A k \in 1..Len(masters[J]) :
              masters[J][k].pendingOpsQty - last.pre.masters[J][k].pendingOpsQty
                = 0 - SumQtyChange(MatchedLines(J, k))

\* a request changed two lines, one up and one down, and was not clamped
C4_Witness ==
  /\ IsEdit /\ Succeeded /\ NoClamp
  /\ \E i, j \in 1..Len(last.res.mlog) :
       last.res.mlog[i].deltaQty > 0 /\ last.res.mlog[j].deltaQty < 0

\* every change of the request names a line of the bill and asks for the
\* quantity the line has
AllQuantitiesCurrent ==
  /\ last.billNumber \in DOMAIN last.pre.bills
  /\ Len(last.changes) > 0
  /\ \A i \in 1..Len(last.changes) :
       LET change == last.changes[i]
           p == billOpsMapGet(JobsBefore,
                  buildKey(change.jobNumber, change.opsName, change.rate))
       IN /\ Trim(change.jobNumber) # "" /\ Trim(change.opsName) # ""
          /\ change.hasQty /\ p # NoEntry
          /\ change.newQtyCompleted = LineAt(JobsBefore, p).qtyCompleted

\* C7: an edit-qty request in which every requested newQtyCompleted equals
\* the line's current qtyCompleted makes no write to the Bill, JobopsMaster or
\* ContractorWD store; it succeeds and returns the current bill when the
\* request is one the handler takes up (it names a contractor, the bill is
\* unpaid, the bill lookup does not throw).
C7_EqualQuantitiesNoWrite ==
  (IsEdit /\ AllQuantitiesCurrent) =>
    /\ WriteCalls = {}
    /\ StoresUnchanged
    /\ (Trim(last.contractorId) # "" /\ last.fail = 0
          /\ last.pre.bills[last.billNumber].paymentStatus # "Yes") =>
         (Succeeded /\ last.res.body = last.pre.bills[last.billNumber])

\* a request of two changes, both for the current quantity, succeeded
C7_Witness ==
  /\ IsEdit /\ AllQuantitiesCurrent /\ Succeeded
  /\ Len(last.changes) = 2
  /\ last.res.body = last.pre.bills[last.billNumber]

RECURSIVE FlatLines(_, _)
FlatLines(jobs, j) ==
  IF j > Len(jobs) THEN <<>>
  ELSE [i \in 1..Len(jobs[j].ops) |-> <<jobs[j].jobNumber, jobs[j].ops[i]>>]
       \o FlatLines(jobs, j + 1)

NonZero(x) == x[2].qtyCompleted # 0

DrivenToZero ==
  {p \in LinePositions(JobsBefore) :
     LineAt(JobsBefore, p).qtyCompleted > 0
     /\ LineAt(JobsRequested, p).qtyCompleted = 0}

\* C8: after a successful edit-qty request that drives a line's qtyCompleted
\* to 0, the persisted bill holds exactly the lines whose quantity is not 0,
\* in their order: the line driven to 0 is gone, the bill has no line with
\* qtyCompleted = 0 and no job with an empty ops list.
C8_ZeroLinesRemoved ==
  (IsEdit /\ Succeeded /\ DrivenToZero # {}) =>
    LET jobs == bills[last.billNumber].jobs
    IN /\ FlatLines(jobs, 1) = SelectSeq(FlatLines(JobsRequested, 1), NonZero)
       /\ \A j \in 1..Len(jobs) :
            /\ jobs[j].ops # <<>>
            /\ \A i \in 1..Len(jobs[j].ops) : jobs[j].ops[i].qtyCompleted # 0

\* a request drove the only line of a job to 0 and the job left the bill
C8_Witness ==
  /\ IsEdit /\ Succeeded
  /\ \E p \in DrivenToZero :
       /\ Len(JobsBefore[p[1]].ops) = 1
       /\ \A j \in 1..Len(bills[last.billNumber].jobs) :
            bills[last.billNumber].jobs[j].jobNumber # JobsBefore[p[1]].jobNumber

(***************************************************************************)
(* The ledger steps of a request: entry i of llog is one adjustment, with  *)
(* the record's entries before and after it.                               *)
(***************************************************************************)
StepsOf(key) == {i \in 1..Len(last.res.llog) : last.res.llog[i].key = key}

Persisted(records, key) == IF key \in DOMAIN records THEN records[key] ELSE <<>>

\* the first step on a record starts from the persisted record (none is no
\* entry), each later step from where the step before left it, and a
\* successful request persists what the last step left
StepsArePersisted ==
  \A i \in 1..Len(last.res.llog) :
    LET e == last.res.llog[i]
        earlier == {h \in StepsOf(e.key) : h < i}
        later == {h \in StepsOf(e.key) : h > i}
    IN /\ earlier = {} => e.before = Persisted(last.pre.ledgers, e.key)
       /\ \A h \in earlier :
            (\A g \in earlier : g <= h) => e.before = last.res.llog[h].after
       /\ (later = {} /\ Succeeded) => e.after = Persisted(ledgers, e.key)

Matching(opsDone, e) == FindExistingOp(opsDone, e.opsName, e.valuePerBook)

\* C9: for every positive delta d that a successful edit-qty request applies
\* for an operation of job J, the ledger record of (contractorId, J) then
\* holds an entry for (opsName, valuePerBook rounded to 2 decimals) whose
\* opsDoneQty is its previous value plus d, or d if there was no such entry
\* or no record.
C9_PositiveDeltaIncreasesLedger ==
  (IsEdit /\ Succeeded) =>
    /\ StepsArePersisted
    /\ \A i \in 1..Len(last.res.llog) :
         LET e == last.res.llog[i]
             kb == Matching(e.before, e)
             ka == Matching(e.after, e)
         IN e.deltaQty > 0 =>
              /\ e.key[1] = last.contractorId
              /\ ka # 0
              /\ e.after[ka].opsDoneQty =
                   (IF kb # 0 THEN e.before[kb].opsDoneQty + e.deltaQty
                    ELSE e.deltaQty)
              /\ Len(e.after) = (IF kb # 0 THEN Len(e.before) ELSE Len(e.before) + 1)

\* one request raised an entry the record held and created an entry in a
\* record that did not exist
C9_Witness ==
  /\ IsEdit /\ Succeeded
  /\ \E i \in 1..Len(last.res.llog) :
       LET e == last.res.llog[i]
       IN /\ e.deltaQty > 0 /\ Matching(e.before, e) # 0
          /\ StepsOf(e.key) = {i}
          /\ ledgers[e.key][Matching(e.before, e)].opsDoneQty
               = last.pre.ledgers[e.key][Matching(e.before, e)].opsDoneQty
                 + e.deltaQty
  /\ \E i \in 1..Len(last.res.llog) :
       LET e == last.res.llog[i]
       IN /\ e.deltaQty > 0 /\ e.key \notin DOMAIN last.pre.ledgers
          /\ e.key \in DOMAIN ledgers

\* the deltas of the request, all of them reached by the ledger stage
AllDeltasApplied ==
  /\ Validated.error = ""
  /\ Len(last.res.llog) > 0
  /\ \A j \in 1..Len(Validated.deltasByJob) :
       Cardinality({i \in 1..Len(last.res.llog) :
                      last.res.llog[i].key[2] = Validated.deltasByJob[j].jobNumber})
         = Len(Validated.deltasByJob[j].deltas)

\* C10: for every negative delta d that a successful edit-qty request
\* applies for an operation: a matching ledger entry with quantity q is
\* removed when q + d <= 0 and otherwise has its opsDoneQty set to q + d;
\* with no matching entry the ledger entries are left as they are, and the
\* request does not fail for it.
C10_NegativeDeltaDecreasesLedger ==
  IsEdit =>
    /\ Succeeded =>
         /\ StepsArePersisted
         /\ \A i \in 1..Len(last.res.llog) :
              LET e == last.res.llog[i]
                  kb == Matching(e.before, e)
              IN e.deltaQty < 0 =>
                   e.after =
                     (IF kb = 0 THEN e.before
                      ELSE IF e.before[kb].opsDoneQty + e.deltaQty <= 0
                      THEN RemoveAt(e.before, kb)
                      ELSE [e.before EXCEPT
                              ![kb].opsDoneQty = @ + e.deltaQty])
    /\ (last.fail = 0 /\ AllDeltasApplied) => Succeeded

\* one request lowered an entry of one record and, in another record, found
\* no entry to lower, and succeeded
C10_Witness ==
  /\ IsEdit /\ Succeeded
  /\ \E i, j \in 1..Len(last.res.llog) :
       LET e == last.res.llog[i]
           f == last.res.llog[j]
           kb == Matching(e.before, e)
       IN /\ e.deltaQty < 0 /\ kb # 0
          /\ StepsOf(e.key) = {i}
          /\ \/ e.before[kb].opsDoneQty + e.deltaQty > 0
                /\ ledgers[e.key][kb].opsDoneQty
                     = last.pre.ledgers[e.key][kb].opsDoneQty + e.deltaQty
             \/ e.before[kb].opsDoneQty + e.deltaQty <= 0
                /\ Persisted(ledgers, e.key) = RemoveAt(last.pre.ledgers[e.key], kb)
          /\ f.deltaQty < 0 /\ Matching(f.before, f) = 0

(***************************************************************************)
(* The soft-delete path and the two paths together.                        *)
(***************************************************************************)
IsDelete == last.kind = "delete"

\* C11: in every state that edit-qty and delete requests reach from a state
\* where it holds, every operation of every JobopsMaster record has
\* 0 <= pendingOpsQty <= totalOpsQty.
C11_MastersInRange ==
  \A J \in DOMAIN masters : \A k \in 1..Len(masters[J]) : InRange(masters[J][k])

\* C12: once a bill's isDeleted flag is set, no later edit-qty or delete
\* request addressed to its number changes the bill, a JobopsMaster record or
\* a ContractorWD record.
C12_DeletedBillIsTerminal ==
  (last.kind \in {"edit", "delete"}
     /\ last.billNumber \in DOMAIN last.pre.bills
     /\ last.pre.bills[last.billNumber].isDeleted = 1) => StoresUnchanged

\* the stores as the delete request leaves them when no storage call throws
Reversed == DeleteBill(last.pre, last.billNumber, 0).st

DeletesBill == IsDelete /\ IsAddressable(last.pre, last.billNumber)

ContractorOf(bill) == Directory[Trim(bill.contractorName)]

MasterOf(records, J) == IF J \in DOMAIN records THEN records[J] ELSE <<>>

\* C13: in the delete path each job's adjustment is atomic: whatever storage
\* call throws, for every job of the bill either both the job's master
\* restoration and its ledger decrease are persisted, or neither is.
C13_JobReversalAtomic ==
  DeletesBill =>
    LET bill == last.pre.bills[last.billNumber]
    IN \A j \in 1..Len(bill.jobs) :
         LET J == bill.jobs[j].jobNumber
             key == <<ContractorOf(bill), J>>
         IN \/ /\ MasterOf(masters, J) = MasterOf(Reversed.masters, J)
               /\ Persisted(ledgers, key) = Persisted(Reversed.ledgers, key)
            \/ /\ MasterOf(masters, J) = MasterOf(last.pre.masters, J)
               /\ Persisted(ledgers, key) = Persisted(last.pre.ledgers, key)

\* the storage call that threw belongs to the reversal of a job: it comes
\* after the bill and contractor lookups and is not the bill's save
ThrewInReversal ==
  /\ DeletesBill /\ last.fail > 2 /\ last.res.status = 500
  /\ last.res.calls[last.fail] # "Bill.save"

\* C14: when a storage call fails while the delete path reverses one job, the
\* path goes on and attempts the reversal of every remaining job of the bill.
C14_DeleteContinuesAfterFailure ==
  ThrewInReversal =>
    Cardinality(CallsOf("JobopsMaster.findOne"))
      = Len(last.pre.bills[last.billNumber].jobs)

\* C15: the paid-bill check precedes every other validation of an edit-qty
\* request: a request for an existing bill with paymentStatus "Yes" is
\* answered with the paid-bill rejection whatever else is wrong with it (no
\* contractorId, empty or malformed changes, unknown operation, invalid
\* quantity).
C15_PaidCheckComesFirst ==
  (IsEdit /\ last.fail = 0
     /\ last.billNumber \in DOMAIN last.pre.bills
     /\ last.pre.bills[last.billNumber].paymentStatus = "Yes") =>
    (last.res.status = 400 /\ last.res.error = "Paid bills cannot be edited")

\* the master operation of job J that the delete path selects for a bill
\* line: the first whose opId is the catalog's id for the line's name
DeleteSelects(ops, line) ==
  LET opIdStr == FindOperationByName(Trim(line.opsName))
  IN IF opIdStr = "" THEN 0
     ELSE IF \E k \in 1..Len(ops) : ops[k].opId = opIdStr
     THEN CHOOSE k \in 1..Len(ops) :
            /\ ops[k].opId = opIdStr
            /\ \A h \in 1..(k - 1) : ops[h].opId # opIdStr
     ELSE 0

\* the bill lines of job J for which the delete path selects operation k
RestoredLines(J, k) ==
  {p \in LinePositions(JobsBefore) :
     /\ JobsBefore[p[1]].jobNumber = J
     /\ DeleteSelects(last.pre.masters[J], LineAt(JobsBefore, p)) = k}

RECURSIVE SumCompleted(_)
SumCompleted(P) ==
  IF P = {} THEN 0
  ELSE LET p == CHOOSE x \in P : TRUE
       IN LineAt(JobsBefore, p).qtyCompleted + SumCompleted(P \ {p})

\* C16: a successful delete of a bill increases, for every line of the bill
\* whose operation is in the job's master record, that master operation's
\* pendingOpsQty by the line's qtyCompleted, floored at 0 and with no upper
\* clamp; no other pendingOpsQty changes.
C16_DeleteRestoresPending ==
  (IsDelete /\ Succeeded) =>
    /\ DOMAIN masters = DOMAIN last.pre.masters
    /\ \A J \in DOMAIN masters :
         /\ Len(masters[J]) = Len(last.pre.masters[J])
         /\ \A k \in 1..Len(masters[J]) :
              masters[J][k].pendingOpsQty =
                Max(0, last.pre.masters[J][k].pendingOpsQty
                       + SumCompleted(RestoredLines(J, k)))

\* a delete restored a line's quantity to an operation and took it above
\* the operation's total
C16_Witness ==
  /\ IsDelete /\ Succeeded
  /\ \E J \in DOMAIN masters : \E k \in 1..Len(masters[J]) :
       /\ SumCompleted(RestoredLines(J, k)) > 0
       /\ masters[J][k].pendingOpsQty > masters[J][k].totalOpsQty
       /\ last.pre.masters[J][k].pendingOpsQty <= masters[J][k].totalOpsQty

\* the entries of a ledger record for the operation of name opsName
EntriesFor(opsDone, opsName) ==
  {i \in 1..Len(opsDone) : Trim(opsDone[i].opsName) = Trim(opsName)}

\* the bill line at p is the only line of its job with its name, and the
\* contractor's ledger record of the job holds one entry for that operation
OneEntryForLine(p) ==
  LET bill == last.pre.bills[last.billNumber]
      job == JobsBefore[p[1]]
      opsDone == Persisted(last.pre.ledgers, <<ContractorOf(bill), job.jobNumber>>)
  IN /\ Cardinality({i \in 1..Len(job.ops) :
                       Trim(job.ops[i].opsName) = Trim(LineAt(JobsBefore, p).opsName)}) = 1
     /\ Cardinality({j \in 1..Len(JobsBefore) :
                       JobsBefore[j].jobNumber = job.jobNumber}) = 1
     /\ Cardinality(EntriesFor(opsDone, LineAt(JobsBefore, p).opsName)) = 1

\* C17: a successful delete of a bill decreases, for every line of the bill,
\* the opsDoneQty of the contractor's ledger entry for the line's operation
\* by the line's qtyCompleted and removes the entry when the result is zero
\* or below, whether the entry carries an operation id or was appended by
\* the edit path.
C17_DeleteDecreasesLedger ==
  (IsDelete /\ Succeeded) =>
    \A p \in LinePositions(JobsBefore) :
      LET bill == last.pre.bills[last.billNumber]
          line == LineAt(JobsBefore, p)
          key == <<ContractorOf(bill), JobsBefore[p[1]].jobNumber>>
          before == Persisted(last.pre.ledgers, key)
          after == Persisted(ledgers, key)
      IN (line.qtyCompleted > 0 /\ OneEntryForLine(p)) =>
           LET i == CHOOSE x \in EntriesFor(before, line.opsName) : TRUE
               q == before[i].opsDoneQty - line.qtyCompleted
           IN IF q <= 0 THEN EntriesFor(after, line.opsName) = {}
              ELSE /\ Cardinality(EntriesFor(after, line.opsName)) = 1
                   /\ \A x \in EntriesFor(after, line.opsName) :
                        after[x].opsDoneQty = q

(***************************************************************************)
(* Delete requests alone, some failing part-way and sent again: the bill's *)
(* lines stay as they were created, and the masters keep their shape.      *)
(***************************************************************************)
DeleteNext == DeleteRequest \/ Respond

DeleteSpec == Init /\ [][DeleteNext]_vars

\* the master records before the first request
InitialMasters ==
  CHOOSE M \in {FullMasters, PartMasters, TwoRateMasters} :
    DOMAIN M = DOMAIN masters /\ Len(M["J1"]) = Len(masters["J1"])

RECURSIVE SumLines(_, _)
SumLines(jobs, P) ==
  IF P = {} THEN 0
  ELSE LET p == CHOOSE x \in P : TRUE
       IN LineAt(jobs, p).qtyCompleted + SumLines(jobs, P \ {p})

\* the lines of the bill whose quantity a delete adds to operation k of J
LinesRestoredTo(jobs, J, k) ==
  {p \in LinePositions(jobs) :
     jobs[p[1]].jobNumber = J
     /\ DeleteSelects(InitialMasters[J], LineAt(jobs, p)) = k}

\* the lines of the bill whose quantity a delete takes from entry e of the
\* ledger record of job J
LinesTakenFrom(jobs, J, e) ==
  {p \in LinePositions(jobs) :
     jobs[p[1]].jobNumber = J
     /\ FindOperationByName(Trim(LineAt(jobs, p).opsName)) = e.opsId}

\* C18: over any sequence of delete requests for the same bill, requests
\* that fail part-way and are sent again included, each line's qtyCompleted
\* is added to the master's pendingOpsQty at most once and taken from the
\* ledger at most once.
C18_ReversalOneShot ==
  LET jobs == InitBills["00000001"].jobs
  IN /\ \A J \in DOMAIN masters : \A k \in 1..Len(masters[J]) :
          masters[J][k].pendingOpsQty
            <= InitialMasters[J][k].pendingOpsQty
               + SumLines(jobs, LinesRestoredTo(jobs, J, k))
     /\ \A key \in DOMAIN InitLedgers : \A i \in 1..Len(InitLedgers[key]) :
          LET e == InitLedgers[key][i]
              left == e.opsDoneQty - SumLines(jobs, LinesTakenFrom(jobs, key[2], e))
              now == {x \in 1..Len(Persisted(ledgers, key)) :
                        Persisted(ledgers, key)[x].opsId = e.opsId}
          IN IF now = {} THEN left <= 0
             ELSE \A x \in now : Persisted(ledgers, key)[x].opsDoneQty >= left

\* C19: the two matching strategies agree: for every bill line and every
\* master record, the master operation the delete path selects (the catalog's
\* id for the line's name, then the opId) is the one the edit path selects
\* (resolved name and rate rounded to 2 decimals), whenever both select one.
C19_MatchingStrategiesAgree ==
  \A b \in DOMAIN bills : \A p \in LinePositions(bills[b].jobs) :
    \A J \in DOMAIN masters :
      LET line == LineAt(bills[b].jobs, p)
          byId == FindJobOpById(masters[J], line.opsName)
          byRate == FindJobOp(masters[J], Trim(line.opsName), Round2(line.rate))
      IN (byId # 0 /\ byRate # 0) => byId = byRate

(***************************************************************************)
(* Two edit-qty requests in flight at once.  Each runs in its own session  *)
(* and transaction (lines 301-302, every read and write carries the        *)
(* session): it reads the stores as they were when it opened, and a write  *)
(* to a document that another transaction has committed since then throws  *)
(* in the storage layer, which takes the handler to its catch (lines       *)
(* 584-591).  The isolation is the storage layer's; it is modelled as the  *)
(* specification describes it (optimistic isolation provided externally).  *)
(***************************************************************************)
Sessions == {"s1", "s2"}

ConcBills ==
  [b \in {"00000001", "00000002"} |->
     IF b = "00000001" THEN InitBills["00000001"]
     ELSE [contractorName |-> "Ravi", paymentStatus |-> "No", isDeleted |-> 0,
           jobs |-> <<[jobNumber |-> "J1",
                       ops |-> <<Line("Drilling", 1000000, 1),
                                 Line("Cutting", 2000000, 0)>>]>>]]

\* both bills have drawn Drilling from job J1's master; Cutting is untouched
ConcMasters ==
  [j \in {"J1", "J2"} |->
     IF j = "J1"
     THEN <<MasterOp("o1", 1000000, 4, 2), MasterOp("o2", 2000000, 2, 2)>>
     ELSE <<MasterOp("o1", 1000000, 2, 1)>>]

ConcLedgers ==
  [k \in {<<"c1", "J1">>, <<"c1", "J2">>} |->
     IF k[2] = "J1" THEN <<Done("o1", "Drilling", 1000000, 2)>>
     ELSE <<Done("o1", "Drilling", 999600, 1)>>]

ConcStart == Stores(ConcBills, ConcMasters, ConcLedgers)

BillDoc(billNumber) == <<"Bill", billNumber, "">>
MasterDoc(jobNumber) == <<"JobopsMaster", jobNumber, "">>
LedgerDoc(key) == <<"ContractorWD", key[1], key[2]>>

Docs ==
  {BillDoc(b) : b \in DOMAIN ConcBills}
  \cup {MasterDoc(J) : J \in DOMAIN ConcMasters}
  \cup {LedgerDoc(k) : k \in DOMAIN ConcLedgers}

IdleSession ==
  [phase |-> "idle", kind |-> "edit", job |-> 0,
   billNumber |-> "", contractorId |-> "", changes |-> <<>>,
   snap |-> ConcStart, seen |-> [d \in Docs |-> 0],
   res |-> NoRequest.res, committed |-> FALSE, conflict |-> FALSE]

ConcInit ==
  /\ bills = ConcBills
  /\ masters = ConcMasters
  /\ ledgers = ConcLedgers
  /\ last = NoRequest
  /\ nreq = 0
  /\ sessions = [tx |-> [s \in Sessions |-> IdleSession],
                 ver |-> [d \in Docs |-> 0]]

\* the calls of a request that write a document
IsWrite(name) ==
  name \in {"JobopsMaster.save", "ContractorWD.save", "ContractorWD.deleteOne",
            "Bill.save"}

\* the document that call i of a request writes: the n-th master save is for
\* the n-th job with deltas, a ledger write is for the job whose ledger
\* record was last looked up
DocOfCall(t, dbj, calls, i) ==
  LET Count(name) == Cardinality({h \in 1..i : calls[h] = name})
  IN IF calls[i] = "JobopsMaster.save"
     THEN MasterDoc(dbj[Count("JobopsMaster.save")].jobNumber)
     ELSE IF calls[i] = "Bill.save" THEN BillDoc(t.billNumber)
     ELSE LedgerDoc(<<t.contractorId, dbj[Count("ContractorWD.findOne")].jobNumber>>)

\* a transaction that lets a write through whatever was committed meanwhile
SeesNoConflict(seen, ver, doc) == FALSE

\* a write in a transaction conflicts when the document has been committed
\* by another transaction since this one opened
SeesConflict(seen, ver, doc) == ver[doc] # seen[doc]

\* startSession / startTransaction and the first read: the request sees the
\* stores as they are now
Open(s) ==
  /\ sessions.tx[s].phase = "idle"
  /\ \E billNumber \in DOMAIN bills :
       \E change \in LineChanges(bills[billNumber].jobs) :
         sessions' = [sessions EXCEPT !.tx[s] =
           [IdleSession EXCEPT !.phase = "open", !.billNumber = billNumber,
              !.contractorId = "c1", !.changes = <<change>>,
              !.snap = Stores(bills, masters, ledgers),
              !.seen = sessions.ver]]
  /\ UNCHANGED <<bills, masters, ledgers, last, nreq>>

\* the rest of the handler: it runs on what it saw; its first write to a
\* document committed meanwhile throws and the transaction is aborted,
\* otherwise its writes are committed together
Close(s) ==
  /\ sessions.tx[s].phase = "open"
  /\ LET t == sessions.tx[s]
         dbj == ApplyChanges(t.changes, 1,
                  [error |-> "", jobs |-> t.snap.bills[t.billNumber].jobs,
                   deltasByJob |-> <<>>]).deltasByJob
     IN \E run \in {EditQty(t.snap, t.billNumber, t.contractorId, t.changes, 0)} :
          LET writes == {i \in 1..Len(run.calls) : IsWrite(run.calls[i])}
              stale == {i \in writes :
                          SeesConflict(t.seen, sessions.ver,
                                       DocOfCall(t, dbj, run.calls, i))}
              written == {DocOfCall(t, dbj, run.calls, i) : i \in writes}
              Finished(res, committed, conflict) ==
                [t EXCEPT !.phase = "done", !.res = res,
                          !.committed = committed, !.conflict = conflict]
          IN IF run.status # 200
             THEN /\ sessions' = [sessions EXCEPT !.tx[s] = Finished(run, FALSE, FALSE)]
                  /\ UNCHANGED <<bills, masters, ledgers>>
             ELSE IF stale # {}
             THEN /\ sessions' = [sessions EXCEPT !.tx[s] =
                        Finished(EditQty(t.snap, t.billNumber, t.contractorId,
                                         t.changes,
                                         CHOOSE i \in stale : \A h \in stale : i <= h),
                                 FALSE, TRUE)]
                  /\ UNCHANGED <<bills, masters, ledgers>>
             ELSE /\ sessions' = [sessions EXCEPT
                        !.tx[s] = Finished(run, TRUE, FALSE),
                        !.ver = [d \in Docs |-> IF d \in written THEN @[d] + 1
                                                 ELSE @[d]]]
                  /\ bills' = [b \in DOMAIN bills |->
                                 IF BillDoc(b) \in written THEN run.st.bills[b]
                                 ELSE bills[b]]
                  /\ masters' = [J \in DOMAIN masters |->
                                   IF MasterDoc(J) \in written THEN run.st.masters[J]
                                   ELSE masters[J]]
                  /\ ledgers' =
                       [k \in {x \in DOMAIN ledgers : LedgerDoc(x) \notin written}
                               \cup {x \in DOMAIN run.st.ledgers :
                                       LedgerDoc(x) \in written} |->
                          IF LedgerDoc(k) \in written THEN run.st.ledgers[k]
                          ELSE ledgers[k]]
  /\ UNCHANGED <<last, nreq>>

OpenSession == \E s \in Sessions : Open(s)

CloseSession == \E s \in Sessions : Close(s)

ConcNext == OpenSession \/ CloseSession

ConcSpec == ConcInit /\ [][ConcNext]_vars

Committed == {s \in Sessions : sessions.tx[s].committed}

AllClosed == \A s \in Sessions : sessions.tx[s].phase = "done"

\* the committed requests in every order
SerialOrders ==
  {o \in [1..Cardinality(Committed) -> Committed] :
     \A i, j \in DOMAIN o : o[i] = o[j] => i = j}

\* the requests of order o from the i-th on, run one after the other on st
RECURSIVE RunSerially(_, _, _)
RunSerially(st, o, i) ==
  IF i > Len(o) THEN [st |-> st, ok |-> TRUE]
  ELSE LET t == sessions.tx[o[i]]
           res == EditQty(st, t.billNumber, t.contractorId, t.changes, 0)
       IN IF res.status # 200 THEN [st |-> st, ok |-> FALSE]
          ELSE RunSerially(res.st, o, i + 1)

\* C20: for any interleaving of two concurrent edit-qty requests on bills
\* that share a master record or a ledger record, the final stores are those
\* of running the committed requests in some serial order, each succeeding
\* there too (no committed delta is lost), and no pendingOpsQty is below 0.
C20_ConcurrentEditsSerialize ==
  /\ \A J \in DOMAIN masters : \A k \in 1..Len(masters[J]) :
       masters[J][k].pendingOpsQty >= 0
  /\ AllClosed =>
       \E o \in SerialOrders :
         LET r == RunSerially(ConcStart, o, 1)
         IN r.ok /\ r.st = Stores(bills, masters, ledgers)

\* two requests on different bills were open at once and both reached for
\* job J1's master: one committed, the other was aborted on its write
C20_Witness ==
  /\ AllClosed
  /\ \E s, u \in Sessions :
       /\ sessions.tx[s].committed /\ sessions.tx[u].conflict
       /\ sessions.tx[s].billNumber # sessions.tx[u].billNumber
       /\ sessions.tx[u].res.status = 500
       /\ masters["J1"] # ConcMasters["J1"]

(***************************************************************************)
(* Soft deletes in flight beside each other and beside edit-qty requests.  *)
(* The delete route has no session: each of its reads sees what is stored  *)
(* at that moment and each of its saves is stored at once (lines 680, 700, *)
(* 704, 734-736, 743).  A delete is followed here from storage call to     *)
(* storage call of its master read-modify-write; the ledger record of a    *)
(* job is reversed in the step of the master's save.                       *)
(***************************************************************************)
\* lines 659-669: the bill is read; one that is deleted is answered 404
BeginDelete(s) ==
  /\ sessions.tx[s].phase = "idle"
  /\ \E billNumber \in DOMAIN bills :
       sessions' = [sessions EXCEPT !.tx[s] =
         [IdleSession EXCEPT
            !.kind = "delete", !.billNumber = billNumber,
            !.contractorId = Directory[Trim(bills[billNumber].contractorName)],
            !.snap = Stores(bills, masters, ledgers),
            !.job = 1,
            !.phase = IF IsAddressable(Stores(bills, masters, ledgers), billNumber)
                      THEN "delete" ELSE "done",
            !.res = [NoRequest.res EXCEPT
                       !.status = IF IsAddressable(Stores(bills, masters, ledgers),
                                                   billNumber)
                                  THEN 0 ELSE 404]]]
  /\ UNCHANGED <<bills, masters, ledgers, last, nreq>>

\* line 680: JobopsMaster.findOne for the next job of the bill
ReadMaster(s) ==
  /\ sessions.tx[s].phase = "delete"
  /\ sessions.tx[s].job <= Len(sessions.tx[s].snap.bills[sessions.tx[s].billNumber].jobs)
  /\ sessions' = [sessions EXCEPT !.tx[s].phase = "read",
                                  !.tx[s].snap.masters = masters]
  /\ UNCHANGED <<bills, masters, ledgers, last, nreq>>

\* line 700: jobOpsMaster.save() stores the pendingOpsQty the handler has
\* assigned (line 694) to the document it read, over what is stored now
SavedOps(stored, read, assigned) ==
  [k \in 1..Len(stored) |->
     IF assigned[k].pendingOpsQty # read[k].pendingOpsQty
     THEN [stored[k] EXCEPT !.pendingOpsQty = assigned[k].pendingOpsQty]
     ELSE stored[k]]

\* lines 683-738: the restored quantities are saved, then the job's ledger
\* record is read, reduced and saved
SaveMaster(s) ==
  /\ sessions.tx[s].phase = "read"
  /\ LET t == sessions.tx[s]
         job == t.snap.bills[t.billNumber].jobs[t.job]
         J == job.jobNumber
         read == t.snap.masters
     IN \E m \in {IF J \in DOMAIN read
                  THEN RestoreOps([ctx |-> NewCtx(t.snap), thrown |-> FALSE,
                                   ops |-> read[J]], job.ops, 1, 0).ops
                  ELSE <<>>} :
          \E saved \in {IF J \in DOMAIN read
                        THEN [masters EXCEPT ![J] = SavedOps(@, read[J], m)]
                        ELSE masters} :
            \E l \in {ReverseLedger(NewCtx(Stores(bills, saved, ledgers)),
                                    t.contractorId, job, 0).ctx.tx.ledgers} :
              /\ masters' = saved
              /\ ledgers' = l
              /\ sessions' = [sessions EXCEPT
                   !.tx[s].phase = "delete",
                   !.tx[s].job = @ + 1,
                   !.ver = [d \in Docs |->
                              IF \/ d = MasterDoc(J) /\ saved # masters
                                 \/ d = LedgerDoc(<<t.contractorId, J>>) /\ l # ledgers
                              THEN @[d] + 1 ELSE @[d]]]
  /\ UNCHANGED <<bills, last, nreq>>

\* lines 742-745: the bill is marked deleted and the request is answered
EndDelete(s) ==
  /\ sessions.tx[s].phase = "delete"
  /\ sessions.tx[s].job > Len(sessions.tx[s].snap.bills[sessions.tx[s].billNumber].jobs)
  /\ bills' = [bills EXCEPT ![sessions.tx[s].billNumber].isDeleted = 1]
  /\ sessions' = [sessions EXCEPT
       !.tx[s].phase = "done", !.tx[s].committed = TRUE,
       !.tx[s].res.status = 200,
       !.ver[BillDoc(sessions.tx[s].billNumber)] = @ + 1]
  /\ UNCHANGED <<masters, ledgers, last, nreq>>

DeleteStep ==
  \E s \in Sessions :
    BeginDelete(s) \/ ReadMaster(s) \/ SaveMaster(s) \/ EndDelete(s)

RaceNext == OpenSession \/ CloseSession \/ DeleteStep

RaceSpec == ConcInit /\ [][RaceNext]_vars

\* the stores after the request of session t, run alone on st
RunAlone(st, t) ==
  IF t.kind = "delete" THEN DeleteBill(st, t.billNumber, 0).st
  ELSE EditQty(st, t.billNumber, t.contractorId, t.changes, 0).st

RECURSIVE RunInOrder(_, _, _)
RunInOrder(st, o, i) ==
  IF i > Len(o) THEN st
  ELSE RunInOrder(RunAlone(st, sessions.tx[o[i]]), o, i + 1)

Pendings(m) ==
  [J \in DOMAIN m |-> [k \in 1..Len(m[J]) |-> m[J][k].pendingOpsQty]]

HasDelete == \E s \in Sessions : sessions.tx[s].kind = "delete"

\* C21: for any interleaving of a soft delete with another soft delete or
\* with an edit-qty request on the same JobopsMaster record, the final
\* pendingOpsQty of every master operation is what running the requests that
\* were answered with success gives in some serial order.
C21_DeleteRacesSerialize ==
  (AllClosed /\ HasDelete) =>
    \E o \in SerialOrders :
      Pendings(RunInOrder(ConcStart, o, 1).masters) = Pendings(masters)

(***************************************************************************)
(* What the claims on single requests speak of, continued.                 *)
(***************************************************************************)
\* the ledger records that the request being answered created, changed or
\* deleted
LedgersModified ==
  {k \in (DOMAIN ledgers) \cup (DOMAIN last.pre.ledgers) :
     \/ k \notin DOMAIN ledgers
     \/ k \notin DOMAIN last.pre.ledgers
     \/ ledgers[k] # last.pre.ledgers[k]}

\* line 672-676: the contractor the delete route works for
DeleteContractorOf(bill) == Directory[Trim(bill.contractorName)]

\* C22: every ledger record that a successful edit-qty request on bill B
\* modifies has the contractorId that the delete route resolves from
\* B.contractorName.
C22_EditAndDeleteSameLedger ==
  (IsEdit /\ Succeeded) =>
    \A k \in LedgersModified :
      k[1] = DeleteContractorOf(last.pre.bills[last.billNumber])

\* the lines of the bill before and after the request, each with its job
LinesBefore == FlatLines(JobsBefore, 1)
LinesAfter == FlatLines(bills[last.billNumber].jobs, 1)

\* the elements of seq at the indices K, in their order
Keep(seq, K) ==
  [i \in 1..Cardinality(K) |->
     seq[CHOOSE k \in K : Cardinality({x \in K : x <= k}) = i]]

\* a change of the request names the line's job, operation and rate
Addressed(x) ==
  \E i \in 1..Len(last.changes) :
    buildKey(last.changes[i].jobNumber, last.changes[i].opsName,
             last.changes[i].rate)
      = buildKey(x[1], x[2].opsName, x[2].rate)

\* what an edit never changes of a line
Identity(x) == <<x[1], x[2].opsName, x[2].rate, x[2].qtyBook>>

\* C23: a successful edit-qty request changes quantities only: the bill's
\* contractorName, paymentStatus and isDeleted stay; the lines after it are
\* lines of before, in their order, with their job, opsName, rate and qtyBook;
\* a line that no change addresses keeps its qtyCompleted and totalValue, and
\* leaves the bill only if its qtyCompleted is 0.
C23_EditChangesQuantitiesOnly ==
  (IsEdit /\ Succeeded) =>
    /\ [bills[last.billNumber] EXCEPT !.jobs = <<>>]
         = [last.pre.bills[last.billNumber] EXCEPT !.jobs = <<>>]
    /\ DOMAIN bills = DOMAIN last.pre.bills
    /\ \E K \in SUBSET (1..Len(LinesBefore)) :
         /\ Len(LinesAfter) = Cardinality(K)
         /\ \A i \in 1..Len(LinesAfter) :
              LET x == Keep(LinesBefore, K)[i]
                  y == LinesAfter[i]
              IN /\ Identity(y) = Identity(x)
                 /\ ~Addressed(x) => y = x
         /\ \A k \in (1..Len(LinesBefore)) \ K :
              ~Addressed(LinesBefore[k]) => LinesBefore[k][2].qtyCompleted = 0

\* a request changed one line; a line it did not address stayed as it was
\* and another, whose quantity was 0, left the bill
C23_Witness ==
  /\ IsEdit /\ Succeeded
  /\ Len(LinesAfter) < Len(LinesBefore)
  /\ \E k \in 1..Len(LinesBefore) :
       ~Addressed(LinesBefore[k]) /\ LinesBefore[k][2].qtyCompleted = 0
  /\ \E k \in 1..Len(LinesBefore), i \in 1..Len(LinesAfter) :
       ~Addressed(LinesBefore[k]) /\ LinesAfter[i] = LinesBefore[k]
  /\ \E k \in 1..Len(LinesBefore), i \in 1..Len(LinesAfter) :
       /\ Addressed(LinesBefore[k])
       /\ Identity(LinesAfter[i]) = Identity(LinesBefore[k])
       /\ LinesAfter[i][2].qtyCompleted # LinesBefore[k][2].qtyCompleted

(***************************************************************************)
(* create, lines 69-196, and the edits of a bill that was created: the     *)
(* route stores a line's totalValue as the request supplies it.            *)
(***************************************************************************)
\* the bill numbers in their order (lines 22-26: the last number plus one,
\* padded to eight digits)
BillNumberSeq == <<"00000001", "00000002">>

\* lines 11-31
generateNextBillNumber(bs) ==
  IF DOMAIN bs = {} THEN BillNumberSeq[1]
  ELSE BillNumberSeq[1 + CHOOSE n \in 1..Len(BillNumberSeq) :
                           /\ BillNumberSeq[n] \in DOMAIN bs
                           /\ \A k \in (n + 1)..Len(BillNumberSeq) :
                                BillNumberSeq[k] \notin DOMAIN bs]

\* lines 91-128, for operations that carry their four numbers
OpError(op) ==
  IF Trim(op.opsName) = ""
  THEN "Each operation must have an operation name (opsName)"
  ELSE IF op.qtyBook < 0 \/ op.rate < 0 \/ op.qtyCompleted < 0 \/ op.totalValue < 0
  THEN "All operation values must be non-negative"
  ELSE ""

\* lines 83-129
JobError(job) ==
  IF Trim(job.jobNumber) = "" THEN "Each job must have a job number"
  ELSE IF Len(job.ops) = 0 THEN "Each job must have at least one operation"
  ELSE LET i == FindFirst(job.ops, LAMBDA op : OpError(op) # "")
       IN IF i = 0 THEN "" ELSE OpError(job.ops[i])

\* lines 82-130
JobsError(jobs) ==
  LET j == FindFirst(jobs, LAMBDA job : JobError(job) # "")
  IN IF j = 0 THEN "" ELSE JobError(jobs[j])

\* lines 166-184: names trimmed, the numbers as they are supplied
NewBill(contractorName, jobs) ==
  [contractorName |-> Trim(contractorName), paymentStatus |-> "No",
   isDeleted |-> 0,
   jobs |-> [j \in 1..Len(jobs) |->
               [jobNumber |-> jobs[j].jobNumber,
                ops |-> [i \in 1..Len(jobs[j].ops) |->
                           [jobs[j].ops[i] EXCEPT !.opsName = Trim(@)]]]]]

\* lines 69-196
CreateBill(st, contractorName, jobs, fail) ==
  LET c0 == NewCtx(st)
      c1 == Call(c0, "Bill.findOne")
      c2 == Call(c1, "Bill.save")
      billNumber == generateNextBillNumber(st.bills)
      bill == NewBill(contractorName, jobs)
  IN IF Trim(contractorName) = ""
     THEN Reply(400, "Contractor name is required", NoBody, st, c0)
     ELSE IF Len(jobs) = 0
     THEN Reply(400, "At least one job is required", NoBody, st, c0)
     ELSE IF JobsError(jobs) # "" THEN Reply(400, JobsError(jobs), NoBody, st, c0)
     ELSE IF Throws(c1, fail) THEN Reply(500, "Error creating bill", NoBody, st, c1)
     ELSE IF Throws(c2, fail) THEN Reply(500, "Error creating bill", NoBody, st, c2)
     ELSE Reply(201, "", bill, [st EXCEPT !.bills = Put(@, billNumber, bill)], c2)

\* a line as a create request supplies it
Supplied(opsName, rate, qtyCompleted, totalValue) ==
  [Line(opsName, rate, qtyCompleted) EXCEPT !.totalValue = totalValue]

\* bills of job J1: Drilling alone or with Cutting, each totalValue either
\* rate * qtyCompleted or another amount; a line whose name is "Unknown"; and
\* bills the validation refuses
CreateInputs ==
  {<<"Ravi", <<[jobNumber |-> "J1", ops |-> ops]>>>> :
     ops \in {<<Supplied(" Drilling ", 1000000, 1, v)>> : v \in {1000000, 500000}}
        \cup {<<Supplied("Drilling", 1000000, 1, v), Supplied("Cutting", 2000000, 1, w)>> :
                v \in {1000000, 500000}, w \in {2000000, 0}}
        \cup {<<Supplied("Unknown", 1000000, 1, 1000000)>>}
        \cup {<<>>, <<Supplied("  ", 1000000, 1, 1000000)>>,
              <<Supplied("Drilling", 1000000, 1, 0 - 1)>>}}
  \cup {<<"  ", <<[jobNumber |-> "J1", ops |-> <<Line("Drilling", 1000000, 1)>>]>>>>,
        <<"Ravi", <<>>>>,
        <<"Ravi", <<[jobNumber |-> "  ", ops |-> <<Line("Drilling", 1000000, 1)>>]>>>>}

\* POST /
CreateRequest ==
  /\ Idle
  /\ Cardinality(DOMAIN bills) < Len(BillNumberSeq)
  /\ \E in \in CreateInputs :
       LET st == Stores(bills, masters, ledgers)
           calls == CreateBill(st, in[1], in[2], 0).calls
       IN \E fail \in 0..Len(calls) :
            \E res \in {CreateBill(st, in[1], in[2], fail)} :
              Handled("create", generateNextBillNumber(bills), "", <<>>, fail, res)

\* PUT /:billNumber/edit-qty by the bill's contractor, one change of a line
EditLineRequest ==
  /\ Idle
  /\ \E billNumber \in DOMAIN bills :
       \E change \in LineChanges(bills[billNumber].jobs) :
         \E res \in {EditQty(Stores(bills, masters, ledgers), billNumber, "c1",
                             <<change>>, 0)} :
           Handled("edit", billNumber, "c1", <<change>>, 0, res)

\* job J1's master holds an operation whose opId has no document in the
\* Operation collection
UnresolvedMasters ==
  [ConcMasters EXCEPT !["J1"] = Append(@, MasterOp("o3", 1000000, 2, 1))]

\* the masters have quantity pending for the bills that are created
ValueInit ==
  /\ bills = InitBills
  /\ masters \in {ConcMasters, UnresolvedMasters}
  /\ ledgers = InitLedgers
  /\ last = NoRequest
  /\ nreq = 0
  /\ sessions = NoSessions

ValueNext == CreateRequest \/ EditLineRequest \/ Respond

ValueSpec == ValueInit /\ [][ValueNext]_vars

\* C24: after any successful edit-qty request, every line that remains on
\* the persisted bill has totalValue = rate * qtyCompleted.
C24_TotalValueIsRateTimesQty ==
  (IsEdit /\ Succeeded) =>
    \A i \in 1..Len(LinesAfter) :
      LinesAfter[i][2].totalValue
        = LinesAfter[i][2].rate * LinesAfter[i][2].qtyCompleted

\* the master operations whose opId the Operation collection does not hold
Unresolved(m) ==
  {x \in UNION {{<<J, k>> : k \in 1..Len(m[J])} : J \in DOMAIN m} :
     m[x[1]][x[2]].opId \notin DOMAIN Catalog}

\* C25: a master operation whose opId cannot be resolved in the Operation
\* catalog is never selected as the match of a delta of an edit-qty request,
\* and no edit-qty request changes its pendingOpsQty.
C25_UnresolvedNeverMatched ==
  IsEdit =>
    /\ \A i \in 1..Len(last.res.mlog) :
         <<last.res.mlog[i].jobNumber, last.res.mlog[i].op>>
           \notin Unresolved(last.pre.masters)
    /\ \A x \in Unresolved(last.pre.masters) :
         masters[x[1]][x[2]].pendingOpsQty
           = last.pre.masters[x[1]][x[2]].pendingOpsQty

====
